---- MODULE Spec2Model ----
(***************************************************************************)
(* A model of the SQLite VFS adapter in src/src/lib.rs and src/src/vfs.rs: *)
(* the registration entry point `register`, the shared per-filesystem      *)
(* state (`VFSState`, with its mutex-guarded last-error slot), the          *)
(* engine-allocated file handle (`FileState`, whose extension is a          *)
(* MaybeUninit<Arc<VFSState>>), and the trampolines the engine calls.       *)
(*                                                                         *)
(* The engine (libsqlite3) is not part of the repository.  It is modelled   *)
(* as the environment: it keeps the registry of descriptors, answers the    *)
(* registration call with a result code of its own choosing, allocates the  *)
(* file-handle buffers, and calls the trampolines from several threads.     *)
(* `io_methods::x_close` is declared (mod io_methods, lib.rs:105) and       *)
(* referenced (lib.rs:115) but its file is not among the sources; it is     *)
(* modelled from the design document.                                       *)
(***************************************************************************)
EXTENDS Integers, Sequences, FiniteSets, TLC

\* ---------------------------------------------------------------- bounds
MaxVfs == 2
MaxFiles == 2
MaxThreads == 2
MaxCalls == 2

\* ------------------------------------------------- the engine's constants
SQLITE_OK == 0
SQLITE_ERROR == 1
SQLITE_NOMEM == 7
SQLITE_CANTOPEN == 14
MxPathname == 512
IoMethodsVersion == 2
VfsVersion == 2

NULL == 0

\* Descriptor pointers: 1..MaxVfs are the ones `register` boxes; BareVfs is a
\* descriptor that did not come from `register` and whose pAppData is null.
BareVfs == MaxVfs + 1
VfsPtrs == 1 .. (MaxVfs + 1)
StatePtrs == 1 .. MaxVfs
Files == 1 .. MaxFiles
Threads == 1 .. MaxThreads

\* Names as byte strings (a Rust &str may hold a 0 byte).
Names == { <<1>>, <<2>>, <<1, 0, 2>> }

\* What sqlite3_vfs_register may answer.
EngineCodes == { SQLITE_OK, SQLITE_NOMEM }

\* The native errors (std::io::Error values) of the model.
ErrNullPtr == "received null pointer"
ErrInvalidFile == "invalid file pointer"
ErrIo == "io failure"
ErrorCodes == { SQLITE_ERROR, SQLITE_CANTOPEN }
\* The error a direct set_last_error call passes with each code: every call
\* passes a pair that differs from the other's in both parts.
ErrorOf(code) == IF code = SQLITE_CANTOPEN THEN ErrInvalidFile ELSE ErrIo

VARIABLES
    vfsMem,     \* descriptor pointer -> the boxed sqlite3_vfs
    stateMem,   \* state pointer -> the Arc<VFSState>: backend, slot, strong count
    nAlloc,     \* descriptors (and states) `register` has boxed and leaked
    registry,   \* the engine's registry: the descriptor pointers it accepted
    regRet,     \* the last return of `register`
    fileMem,    \* file pointer -> the engine-allocated FileState buffer
    life,       \* file pointer -> "allocated" | "opened" | "closed"
    counter,    \* backend -> how often its x_open ran
    mutex,      \* state pointer -> the thread holding last_error's lock, or NULL
    pc,         \* thread -> where it is in a trampoline
    frame,      \* thread -> the arguments and locals of its call
    ret,        \* thread -> its last returned call
    nCalls,     \* calls made so far
    extRead,    \* file pointer -> the lifecycle states in which ext was read
    dropCount,  \* file pointer -> how often ext was dropped
    okOpens,    \* state pointer -> x_open calls that returned SQLITE_OK
    sleLog      \* state pointer -> the arguments of its set_last_error calls, in order

vars == << vfsMem, stateMem, nAlloc, registry, regRet, fileMem, life,
           counter, mutex, pc, frame, ret, nCalls, extRead, dropCount,
           okOpens, sleLog >>

\* ------------------------------------------------------------ registration

\* CString::new(name): fails on an interior 0 byte, otherwise the bytes with
\* the terminator appended.
HasNul(name) == \E i \in 1 .. Len(name) : name[i] = 0

\* Mutant: the bytes are taken as they are, with no check for a 0 byte.
CStringNew_unchecked(name) == [ok |-> TRUE, raw |-> Append(name, 0)]

CStringNew(name) ==
    IF HasNul(name)
    THEN [ok |-> FALSE, raw |-> <<>>]
    ELSE [ok |-> TRUE, raw |-> Append(name, 0)]

\* How the engine reads a zName: the bytes before the first 0.
RECURSIVE CStrRead(_)
CStrRead(raw) ==
    IF raw = <<>> \/ Head(raw) = 0 THEN <<>>
    ELSE <<Head(raw)>> \o CStrRead(Tail(raw))

\* The io_methods table `register` builds: only xClose is Some.
IoMethods == [iVersion |-> IoMethodsVersion, slots |-> {"xClose"}]

\* The descriptor `register` boxes.
NewVfs(raw, appData) ==
    [alloc |-> TRUE, iVersion |-> VfsVersion, mxPathname |-> MxPathname,
     zName |-> raw, pAppData |-> appData, slots |-> {"xOpen"}]

NoVfs ==
    [alloc |-> FALSE, iVersion |-> 0, mxPathname |-> 0,
     zName |-> <<>>, pAppData |-> NULL, slots |-> {}]

\* Arc::new(VFSState { vfs: Arc::new(vfs), last_error: Mutex::new(None) })
NewState(backend) ==
    [alloc |-> TRUE, vfs |-> backend, last_error |-> <<>>, strong |-> 1]

NoState == [alloc |-> FALSE, vfs |-> NULL, last_error |-> <<>>, strong |-> 0]

\* Mutant: every failure is reported with the generic code.
RegisterResult_generic(code) ==
    IF code # SQLITE_OK
    THEN [tag |-> "Register", code |-> SQLITE_ERROR]
    ELSE [tag |-> "Ok", code |-> SQLITE_OK]

\* lib.rs:183-187  register's mapping of the engine's answer.
RegisterResult(code) ==
    IF code # SQLITE_OK
    THEN [tag |-> "Register", code |-> code]
    ELSE [tag |-> "Ok", code |-> SQLITE_OK]

NulResult == [tag |-> "Nul", code |-> SQLITE_OK]
NoResult == [tag |-> "none", code |-> SQLITE_OK]

\* sqlite3_vfs_find(name) in the engine's registry.
VfsFind(reg, mem, name) == { d \in reg : CStrRead(mem[d].zName) = name }

NoFrame ==
    [fn |-> "none", arg1 |-> NULL, arg2 |-> NULL, state |-> NULL,
     code |-> SQLITE_OK, error |-> ErrNullPtr]

Init ==
    /\ vfsMem = [d \in VfsPtrs |->
                    IF d = BareVfs THEN [NoVfs EXCEPT !.alloc = TRUE] ELSE NoVfs]
    /\ stateMem = [s \in StatePtrs |-> NoState]
    /\ nAlloc = 0
    /\ registry = {}
    /\ regRet = [name |-> <<>>, result |-> NoResult, engineCalled |-> FALSE,
                 engineCode |-> SQLITE_OK, dup |-> FALSE, ptr |-> NULL]
    /\ fileMem = [f \in Files |->
                    [pMethods |-> "null", ext |-> [tag |-> "uninit", ref |-> NULL]]]
    /\ life = [f \in Files |-> "allocated"]
    /\ counter = [s \in StatePtrs |-> 0]
    /\ mutex = [s \in StatePtrs |-> NULL]
    /\ pc = [t \in Threads |-> "idle"]
    /\ frame = [t \in Threads |-> NoFrame]
    /\ ret = [fn |-> "none", arg1 |-> NULL, arg2 |-> NULL, state |-> NULL,
              argCode |-> SQLITE_OK, code |-> SQLITE_OK, slot |-> <<>>,
              recorded |-> FALSE, wrote |-> FALSE, read |-> FALSE]
    /\ nCalls = 0
    /\ extRead = [f \in Files |-> {}]
    /\ dropCount = [f \in Files |-> 0]
    /\ okOpens = [s \in StatePtrs |-> 0]
    /\ sleLog = [s \in StatePtrs |-> <<>>]

\* Mutant: the box of the first call is kept and handed out again by every
\* later call, which overwrites it.
BoxIntoRaw_static == IF nAlloc = 0 THEN nAlloc + 1 ELSE nAlloc

\* lib.rs:143,145  Box::into_raw(Box::new(..)): a fresh allocation per call,
\* never freed; the state and its descriptor get the same number.
BoxIntoRaw == nAlloc + 1

\* Mutant: a refused registration takes its allocations back
\* (Box::from_raw / CString::from_raw on the error path).
register_reclaim(name, as_default, engineCode) ==
    LET c == CStringNew(name) IN
    IF ~c.ok
    THEN /\ regRet' = [name |-> name, result |-> NulResult,
                       engineCalled |-> FALSE, engineCode |-> SQLITE_OK,
                       dup |-> VfsFind(registry, vfsMem, name) # {},
                       ptr |-> NULL]
         /\ UNCHANGED << vfsMem, stateMem, nAlloc, registry >>
    ELSE LET d == BoxIntoRaw IN
         /\ nAlloc < MaxVfs
         /\ nAlloc' = nAlloc + 1
         /\ stateMem' = IF engineCode = SQLITE_OK
                        THEN [stateMem EXCEPT ![d] = NewState(d)]
                        ELSE stateMem
         /\ vfsMem' = IF engineCode = SQLITE_OK
                      THEN [vfsMem EXCEPT ![d] = NewVfs(c.raw, d)]
                      ELSE vfsMem
         /\ registry' = IF engineCode = SQLITE_OK THEN registry \cup {d}
                        ELSE registry
         /\ regRet' = [name |-> name, result |-> RegisterResult(engineCode),
                       engineCalled |-> TRUE, engineCode |-> engineCode,
                       dup |-> VfsFind(registry, vfsMem, name) # {},
                       ptr |-> d]

\* register(name, as_default, vfs): one call, with the engine answering
\* `engineCode` to sqlite3_vfs_register.  as_default is handed to the engine
\* as it is and decides only which descriptor the engine takes as its
\* default, which is the engine's own state.
register(name, as_default, engineCode) ==
    LET c == CStringNew(name) IN
    IF ~c.ok
    THEN /\ regRet' = [name |-> name, result |-> NulResult,
                       engineCalled |-> FALSE, engineCode |-> SQLITE_OK,
                       dup |-> VfsFind(registry, vfsMem, name) # {},
                       ptr |-> NULL]
         /\ UNCHANGED << vfsMem, stateMem, nAlloc, registry >>
    ELSE LET d == BoxIntoRaw IN
         /\ nAlloc < MaxVfs
         /\ nAlloc' = nAlloc + 1
         /\ stateMem' = [stateMem EXCEPT ![d] = NewState(d)]
         /\ vfsMem' = [vfsMem EXCEPT ![d] = NewVfs(c.raw, d)]
         /\ registry' = IF engineCode = SQLITE_OK THEN registry \cup {d}
                        ELSE registry
         /\ regRet' = [name |-> name, result |-> RegisterResult(engineCode),
                       engineCalled |-> TRUE, engineCode |-> engineCode,
                       dup |-> VfsFind(registry, vfsMem, name) # {},
                       ptr |-> d]

RegisterCall ==
    \E name \in Names, as_default \in BOOLEAN, engineCode \in EngineCodes :
        /\ register(name, as_default, engineCode)
        /\ UNCHANGED << fileMem, life, counter, mutex, pc, frame, ret, nCalls,
                        extRead, dropCount, okOpens, sleLog >>

\* ------------------------------------------------------ pointer recovery

\* Mutant: one state, the first that was boxed, serves every descriptor.
vfs_state_static(ptr) ==
    IF ptr = NULL THEN [ok |-> FALSE, state |-> NULL, error |-> ErrNullPtr]
    ELSE IF vfsMem[ptr].pAppData = NULL
         THEN [ok |-> FALSE, state |-> NULL, error |-> ErrNullPtr]
         ELSE [ok |-> TRUE,
               state |-> CHOOSE s \in StatePtrs : \A u \in StatePtrs : s <= u,
               error |-> ErrNullPtr]

\* vfs_state(ptr): the checked casts of the descriptor and of its pAppData.
vfs_state(ptr) ==
    IF ptr = NULL THEN [ok |-> FALSE, state |-> NULL, error |-> ErrNullPtr]
    ELSE IF vfsMem[ptr].pAppData = NULL
         THEN [ok |-> FALSE, state |-> NULL, error |-> ErrNullPtr]
         ELSE [ok |-> TRUE, state |-> vfsMem[ptr].pAppData, error |-> ErrNullPtr]

\* file_state(ptr): the checked cast of the file pointer, then
\* ext.assume_init_mut(), which reads the extension whatever it holds.
file_state(ptr) ==
    IF ptr = NULL THEN [ok |-> FALSE, ext |-> NULL, error |-> ErrNullPtr]
    ELSE [ok |-> TRUE, ext |-> fileMem[ptr].ext.ref, error |-> ErrNullPtr]

\* ------------------------------------------------------------- the threads

Busy(f) == \E t \in Threads : pc[t] # "idle" /\ frame[t].arg2 = f

\* Buffers the engine has allocated and not yet passed to open are all alike:
\* the engine hands out the lowest one.
FirstOfItsKind(f) ==
    life[f] = "allocated" =>
        \A g \in Files : (g < f /\ ~Busy(g)) => life[g] # "allocated"

\* A call with frame `fr` returns `code`: the thread is idle, and `ret` keeps what the
\* call was given, what it answered, whether its last step recorded an error
\* (`recorded`), wrote a file handle (`wrote`) or read an extension (`read`),
\* and the last-error slot of its filesystem as the return leaves it.  (The
\* steps before the last change only the thread's frame and the lock.)
Return(t, fr, code) ==
    /\ pc' = [pc EXCEPT ![t] = "idle"]
    /\ frame' = [frame EXCEPT ![t] = NoFrame]
    /\ ret' = [fn |-> fr.fn, arg1 |-> fr.arg1, arg2 |-> fr.arg2,
               state |-> fr.state, argCode |-> fr.code, code |-> code,
               slot |-> IF fr.state = NULL THEN <<>>
                        ELSE stateMem'[fr.state].last_error,
               recorded |-> sleLog' # sleLog, wrote |-> fileMem' # fileMem,
               read |-> extRead' # extRead]

\* Thread t may take a new call: it is idle, the idle threads being all
\* alike the lowest one takes it, and the model's budget of calls is not spent.
CanEnter(t) ==
    /\ pc[t] = "idle"
    /\ \A u \in Threads : u < t => pc[u] # "idle"
    /\ nCalls < MaxCalls

\* The frame of a call as it is entered.
Frame(fn, arg1, arg2, state, code, error) ==
    [fn |-> fn, arg1 |-> arg1, arg2 |-> arg2, state |-> state,
     code |-> code, error |-> error]

\* The backend's capability method (trait VFS, fn x_open) of the counting
\* backend of the end-to-end scenario.  No trampoline of the source calls it.
VFS_x_open(b) == [counter EXCEPT ![b] = @ + 1]

\* Mutant: an unrecoverable descriptor is answered with the cannot-open code.
x_open_vfs_state_cantopen(t, arg1, arg2) ==
    LET r == vfs_state(arg1)
        fr == Frame("x_open", arg1, arg2, r.state, SQLITE_OK, ErrNullPtr)
    IN  IF r.ok
        THEN /\ frame' = [frame EXCEPT ![t] = fr]
             /\ pc' = [pc EXCEPT ![t] = "open_out_file"]
             /\ UNCHANGED ret
        ELSE Return(t, fr, SQLITE_CANTOPEN)

\* vfs.rs:3-18  entry, and  let state = match vfs_state::<V>(arg1) { ... }:
\* the descriptor and its pAppData are read-only once registered, so the
\* recovery of the state is one step with the entry.
x_open_vfs_state(t, arg1, arg2) ==
    LET r == vfs_state(arg1)
        fr == Frame("x_open", arg1, arg2, r.state, SQLITE_OK, ErrNullPtr)
    IN  IF r.ok
        THEN /\ frame' = [frame EXCEPT ![t] = fr]
             /\ pc' = [pc EXCEPT ![t] = "open_out_file"]
             /\ UNCHANGED ret
        ELSE Return(t, fr, SQLITE_ERROR)

\* The engine (or any caller) enters the open trampoline.  The descriptor is
\* null, the bare one, or a registered one; the file pointer is null or a
\* buffer that is not closed and that no other call is using.
XOpenCall(t) ==
    \E arg1 \in {NULL, BareVfs} \cup registry, arg2 \in {NULL} \cup Files :
        /\ arg2 # NULL => (life[arg2] # "closed" /\ ~Busy(arg2) /\ FirstOfItsKind(arg2))
        /\ CanEnter(t)
        /\ nCalls' = nCalls + 1
        /\ UNCHANGED << vfsMem, stateMem, nAlloc, registry, regRet,
                        fileMem, life, counter, mutex, extRead, dropCount,
                        okOpens, sleLog >>
        /\ x_open_vfs_state(t, arg1, arg2)

\* Mutant: *out_file.ext.assume_init_mut() = state.clone(), an assignment,
\* which reads and drops what the extension held before.
x_open_init_ext_assign(f, s) ==
    LET old == fileMem[f].ext
        cloned == [stateMem EXCEPT ![s].strong = @ + 1]
    IN  /\ stateMem' = IF old.tag = "init"
                       THEN [cloned EXCEPT ![old.ref].strong = @ - 1]
                       ELSE cloned
        /\ fileMem' = [fileMem EXCEPT ![f].ext = [tag |-> "init", ref |-> s]]
        /\ extRead' = [extRead EXCEPT ![f] = @ \cup {life[f]}]
        /\ dropCount' = [dropCount EXCEPT ![f] = @ + 1]

\* Mutant: the extension lives in one buffer shared by every handle, so the
\* write shows in all of them.
x_open_init_ext_shared(f, s) ==
    /\ stateMem' = [stateMem EXCEPT ![s].strong = @ + 1]
    /\ fileMem' = [g \in Files |->
                     [fileMem[g] EXCEPT !.ext = [tag |-> "init", ref |-> s]]]
    /\ UNCHANGED << extRead, dropCount >>

\* Mutant: a successful open clears the last error.
x_open_init_ext_clear(f, s) ==
    /\ stateMem' = [stateMem EXCEPT ![s].strong = @ + 1,
                                    ![s].last_error = <<>>]
    /\ fileMem' = [fileMem EXCEPT ![f].ext = [tag |-> "init", ref |-> s]]
    /\ UNCHANGED << extRead, dropCount >>

\* vfs.rs:30  out_file.ext.write(state.clone()): one more strong reference,
\* written over whatever the extension held, which is neither read nor dropped.
x_open_init_ext(f, s) ==
    /\ stateMem' = [stateMem EXCEPT ![s].strong = @ + 1]
    /\ fileMem' = [fileMem EXCEPT ![f].ext = [tag |-> "init", ref |-> s]]
    /\ UNCHANGED << extRead, dropCount >>

\* Mutant: the extension is reached through file_state, which reads it.
x_open_out_file_via_file_state(t) ==
    LET f == frame[t].arg2
        s == frame[t].state
        r == file_state(f)
    IN  IF ~r.ok
        THEN /\ frame' = [frame EXCEPT ![t].code = SQLITE_CANTOPEN,
                                       ![t].error = ErrInvalidFile]
             /\ pc' = [pc EXCEPT ![t] = "sle_lock"]
             /\ UNCHANGED << stateMem, fileMem, life, okOpens, ret, extRead,
                             dropCount >>
        ELSE /\ stateMem' = [stateMem EXCEPT ![s].strong = @ + 1]
             /\ fileMem' = [fileMem EXCEPT ![f].ext = [tag |-> "init", ref |-> s]]
             /\ extRead' = [extRead EXCEPT ![f] = @ \cup {life[f]}]
             /\ UNCHANGED dropCount
             /\ life' = [life EXCEPT ![f] = "opened"]
             /\ okOpens' = [okOpens EXCEPT ![s] = @ + 1]
             /\ Return(t, frame[t], SQLITE_OK)

\* Mutant: a null file pointer is answered without set_last_error.
x_open_out_file_no_report(t) ==
    LET f == frame[t].arg2
        s == frame[t].state
    IN  IF f = NULL
        THEN /\ UNCHANGED << stateMem, fileMem, life, okOpens, extRead,
                             dropCount >>
             /\ Return(t, frame[t], SQLITE_CANTOPEN)
        ELSE /\ x_open_init_ext(f, s)
             /\ life' = [life EXCEPT ![f] = "opened"]
             /\ okOpens' = [okOpens EXCEPT ![s] = @ + 1]
             /\ Return(t, frame[t], SQLITE_OK)

\* Mutant: the clone is taken before the file pointer is looked at, and is
\* forgotten on the error path.
x_open_out_file_clone_first(t) ==
    LET f == frame[t].arg2
        s == frame[t].state
    IN  IF f = NULL
        THEN /\ frame' = [frame EXCEPT ![t].code = SQLITE_CANTOPEN,
                                       ![t].error = ErrInvalidFile]
             /\ pc' = [pc EXCEPT ![t] = "sle_lock"]
             /\ stateMem' = [stateMem EXCEPT ![s].strong = @ + 1]
             /\ UNCHANGED << fileMem, life, okOpens, ret, extRead, dropCount >>
        ELSE /\ x_open_init_ext(f, s)
             /\ life' = [life EXCEPT ![f] = "opened"]
             /\ okOpens' = [okOpens EXCEPT ![s] = @ + 1]
             /\ Return(t, frame[t], SQLITE_OK)

\* vfs.rs:20-32  the file pointer's checked cast, then either the report
\* through set_last_error or the initialisation of the extension.
x_open_out_file(t) ==
    LET f == frame[t].arg2
        s == frame[t].state
    IN  IF f = NULL
        THEN /\ frame' = [frame EXCEPT ![t].code = SQLITE_CANTOPEN,
                                       ![t].error = ErrInvalidFile]
             /\ pc' = [pc EXCEPT ![t] = "sle_lock"]
             /\ UNCHANGED << stateMem, fileMem, life, okOpens, ret, extRead,
                             dropCount >>
        ELSE /\ x_open_init_ext(f, s)
             /\ life' = [life EXCEPT ![f] = "opened"]
             /\ okOpens' = [okOpens EXCEPT ![s] = @ + 1]
             /\ Return(t, frame[t], SQLITE_OK)

XOpenOutFile(t) ==
    /\ pc[t] = "open_out_file"
    /\ UNCHANGED << vfsMem, nAlloc, registry, regRet, counter, mutex,
                    nCalls, sleLog >>
    /\ x_open_out_file(t)

\* ----------------------------------------------------------- set_last_error

\* Mutant: the slot is reached without taking the lock.
SleLock_unlocked(t) ==
    /\ pc[t] = "sle_lock"
    /\ pc' = [pc EXCEPT ![t] = "sle_insert"]
    /\ UNCHANGED << vfsMem, stateMem, nAlloc, registry, regRet, fileMem,
                    life, counter, mutex, frame, ret, nCalls, extRead,
                    dropCount, okOpens, sleLog >>

\* lib.rs:44  self.last_error.lock().unwrap(): blocks until the lock is free.
SleLock(t) ==
    /\ pc[t] = "sle_lock"
    /\ mutex[frame[t].state] = NULL
    /\ mutex' = [mutex EXCEPT ![frame[t].state] = t]
    /\ pc' = [pc EXCEPT ![t] = "sle_insert"]
    /\ UNCHANGED << vfsMem, stateMem, nAlloc, registry, regRet, fileMem,
                    life, counter, frame, ret, nCalls, extRead, dropCount,
                    okOpens, sleLog >>

\* Mutant: Option::get_or_insert, which keeps a pair already there.
set_last_error_keep_first(slot, code, error) ==
    IF slot = <<>> THEN << [code |-> code, error |-> error] >> ELSE slot

\* lib.rs:44  Option::insert((code, error)) on the slot.
set_last_error_insert(slot, code, error) == << [code |-> code, error |-> error] >>

\* lib.rs:45  return code;
set_last_error_ret(code) == code

\* lib.rs:44-45  the insert under the lock, the guard's drop, the return.
SleInsert(t) ==
    LET s == frame[t].state IN
    /\ pc[t] = "sle_insert"
    /\ mutex[s] = t
    /\ stateMem' = [stateMem EXCEPT ![s].last_error =
                      set_last_error_insert(@, frame[t].code, frame[t].error)]
    /\ sleLog' = [sleLog EXCEPT ![s] =
                      Append(@, [code |-> frame[t].code, error |-> frame[t].error])]
    /\ mutex' = [mutex EXCEPT ![s] = NULL]
    /\ UNCHANGED << vfsMem, nAlloc, registry, regRet, fileMem, life,
                    counter, nCalls, extRead, dropCount, okOpens >>
    /\ Return(t, frame[t], set_last_error_ret(frame[t].code))

\* A direct call of VFSState::set_last_error, as a trampoline reporting a
\* capability error makes it.
SetLastErrorCall(t) ==
    \E s \in StatePtrs, code \in ErrorCodes :
      \E error \in {ErrorOf(code)} :
        /\ stateMem[s].alloc
        /\ CanEnter(t)
        /\ nCalls' = nCalls + 1
        /\ pc' = [pc EXCEPT ![t] = "sle_lock"]
        /\ frame' = [frame EXCEPT ![t] =
                       Frame("set_last_error", NULL, NULL, s, code, error)]
        /\ UNCHANGED << vfsMem, stateMem, nAlloc, registry, regRet,
                        fileMem, life, counter, mutex, ret, extRead,
                        dropCount, okOpens, sleLog >>

\* lib.rs:44 at the grain of the memory writes: Option::insert stores the
\* tuple field by field.  First the code; the error field is what was there
\* before, or not yet written.
SleWriteCode(t) ==
    LET s == frame[t].state
        old == stateMem[s].last_error
    IN  /\ pc[t] = "sle_insert"
        /\ stateMem' = [stateMem EXCEPT ![s].last_error =
              << [code |-> frame[t].code,
                  error |-> IF old = <<>> THEN "unwritten" ELSE old[1].error] >>]
        /\ pc' = [pc EXCEPT ![t] = "sle_insert_error"]
        /\ UNCHANGED << vfsMem, nAlloc, registry, regRet, fileMem, life,
                        counter, mutex, frame, ret, nCalls, extRead,
                        dropCount, okOpens, sleLog >>

\* Then the error, the guard's drop (lib.rs:44, end of statement) and the
\* return of the code (lib.rs:45).
SleWriteError(t) ==
    LET s == frame[t].state IN
    /\ pc[t] = "sle_insert_error"
    /\ stateMem' = [stateMem EXCEPT ![s].last_error =
                      << [@[1] EXCEPT !.error = frame[t].error] >>]
    /\ sleLog' = [sleLog EXCEPT ![s] =
                      Append(@, [code |-> frame[t].code, error |-> frame[t].error])]
    /\ mutex' = [mutex EXCEPT ![s] = NULL]
    /\ UNCHANGED << vfsMem, nAlloc, registry, regRet, fileMem, life,
                    counter, nCalls, extRead, dropCount, okOpens >>
    /\ Return(t, frame[t], set_last_error_ret(frame[t].code))

\* ------------------------------------------------------------------ x_close

\* io_methods::x_close: recovers the extension through file_state and drops
\* it; a null pointer is answered with the generic error.  The handle is the
\* call's alone and the drop is one atomic decrement, so the call is one step.
x_close(t, arg) ==
    LET r == file_state(arg)
        fr == Frame("x_close", NULL, arg, IF r.ok THEN r.ext ELSE NULL,
                    SQLITE_OK, ErrNullPtr)
    IN  IF ~r.ok
        THEN /\ UNCHANGED << stateMem, fileMem, life, extRead, dropCount >>
             /\ Return(t, fr, SQLITE_ERROR)
        ELSE /\ extRead' = [extRead EXCEPT ![arg] = @ \cup {life[arg]}]
             /\ stateMem' = [stateMem EXCEPT ![r.ext].strong = @ - 1]
             /\ fileMem' = [fileMem EXCEPT ![arg].ext.tag = "dropped"]
             /\ dropCount' = [dropCount EXCEPT ![arg] = @ + 1]
             /\ life' = [life EXCEPT ![arg] = "closed"]
             /\ Return(t, fr, SQLITE_OK)

\* The engine calls the close trampoline: on a null pointer, or on a handle
\* it has opened and that no other call is using.
XCloseCall(t) ==
    \E arg \in {NULL} \cup Files :
        /\ arg # NULL => (life[arg] = "opened" /\ ~Busy(arg))
        /\ CanEnter(t)
        /\ nCalls' = nCalls + 1
        /\ UNCHANGED << vfsMem, nAlloc, registry, regRet, counter, mutex,
                        okOpens, sleLog >>
        /\ x_close(t, arg)

\* ------------------------------------------------------- the specifications

Trampolines ==
    \E t \in Threads :
        \/ XOpenCall(t)
        \/ XOpenOutFile(t)
        \/ SleLock(t)
        \/ SleInsert(t)
        \/ XCloseCall(t)

Next == RegisterCall \/ Trampolines

Spec == Init /\ [][Next]_vars

\* VFSState::set_last_error on its own: the states `register` creates, and
\* the method called directly from several threads.
NextUnit ==
    \/ RegisterCall
    \/ \E t \in Threads : SetLastErrorCall(t) \/ SleLock(t) \/ SleInsert(t)

SpecUnit == Init /\ [][NextUnit]_vars

\* set_last_error at the grain of its memory writes, under fair scheduling:
\* a thread that holds the lock keeps running, and a thread waiting for a lock
\* that is released again and again gets it.
\* register called with one fixed valid name: the states it creates are all
\* that set_last_error needs of it.
RegisterValid ==
    \E engineCode \in EngineCodes :
        /\ register(<<1>>, FALSE, engineCode)
        /\ UNCHANGED << fileMem, life, counter, mutex, pc, frame, ret, nCalls,
                        extRead, dropCount, okOpens, sleLog >>

NextLock ==
    \/ RegisterValid
    \/ \E t \in Threads :
          \/ SetLastErrorCall(t)
          \/ SleLock(t)
          \/ SleWriteCode(t)
          \/ SleWriteError(t)

SpecLock ==
    /\ Init
    /\ [][NextLock]_vars
    /\ \A t \in Threads :
          /\ SF_vars(SleLock(t))
          /\ WF_vars(SleWriteCode(t))
          /\ WF_vars(SleWriteError(t))

\* ------------------------------------------------------------------ claims

ValidVfs(ptr) == ptr # NULL /\ vfsMem[ptr].pAppData # NULL

\* The callbacks the engine can reach through descriptor d and file handle f.
EngineCallbacks(d, f) ==
    vfsMem[d].slots \cup
        (IF fileMem[f].pMethods = "io_methods" THEN IoMethods.slots ELSE {})

\* C1: every open trampoline call that returned OK invoked the backend's open
\* once, so a counting backend's counter equals the number of successful
\* opens of its filesystem.
C1_CounterCountsOpens == \A s \in StatePtrs : counter[s] = okOpens[s]

C5_NulNameNotRegistered ==
    [][ (regRet' # regRet /\ HasNul(regRet'.name)) =>
            /\ regRet'.result.tag = "Nul"
            /\ ~regRet'.engineCalled
            /\ registry' = registry
            /\ vfsMem' = vfsMem ]_vars

C5_Witness ==
    /\ regRet.result.tag = "Nul" /\ HasNul(regRet.name)
    /\ VfsFind(registry, vfsMem, CStrRead(regRet.name)) # {}

\* C6: a register call whose name holds no 0 byte calls the engine, returns Ok
\* exactly when the engine answered OK and otherwise Register(code) with the
\* engine's code; after Ok its descriptor is found in the registry under the
\* name.
C6_RegisterFollowsEngine ==
    (regRet.result.tag # "none" /\ ~HasNul(regRet.name)) =>
        /\ regRet.engineCalled
        /\ (regRet.result.tag = "Ok") <=> (regRet.engineCode = SQLITE_OK)
        /\ regRet.engineCode # SQLITE_OK =>
              regRet.result = [tag |-> "Register", code |-> regRet.engineCode]
        /\ regRet.result.tag = "Ok" =>
              regRet.ptr \in VfsFind(registry, vfsMem, regRet.name)

C6_Witness ==
    /\ regRet.result.tag = "Ok"
    /\ regRet.ptr \in VfsFind(registry, vfsMem, regRet.name)
    /\ \E d \in 1 .. nAlloc : d \notin registry

\* C7: the open trampoline, given a valid descriptor and a null file pointer,
\* returns SQLITE_CANTOPEN, leaves (SQLITE_CANTOPEN, "invalid file pointer")
\* in the last-error slot of that descriptor's state, and writes no handle.
C7_NullFileReported ==
    (ret.fn = "x_open" /\ ValidVfs(ret.arg1) /\ ret.arg2 = NULL) =>
        /\ ret.code = SQLITE_CANTOPEN
        /\ ret.state = vfsMem[ret.arg1].pAppData
        /\ ret.slot = << [code |-> SQLITE_CANTOPEN, error |-> ErrInvalidFile] >>
        /\ ~ret.wrote

C7_Witness ==
    /\ ret.fn = "x_open" /\ ValidVfs(ret.arg1) /\ ret.arg2 = NULL
    /\ ret.code = SQLITE_CANTOPEN

\* C8: the slot of a state holds nothing while no set_last_error call was
\* made on it, and otherwise exactly the pair of the most recent call; every
\* call returned the code it was given.
C8_LastWriteWins ==
    /\ \A s \in StatePtrs :
          stateMem[s].last_error =
             IF sleLog[s] = <<>> THEN <<>>
             ELSE << sleLog[s][Len(sleLog[s])] >>
    /\ ret.recorded => ret.code = ret.argCode

C8_Witness ==
    \E s \in StatePtrs :
        /\ Len(sleLog[s]) = 2 /\ sleLog[s][1] # sleLog[s][2]
        /\ ret.fn = "set_last_error"

\* C9, as stated: a register call under a name already registered returns
\* RegisterError::Register.
C9_DuplicateRejected == regRet.dup => regRet.result.tag = "Register"

\* C9, amended: a register call under a name already registered returns
\* Register(code) with the engine's code when the engine's registration call
\* fails and Ok when the engine accepts; either way every descriptor that was
\* registered under the name stays registered under it, with its descriptor
\* and its shared state (backend, slot, reference count) unchanged.
C9_DuplicateLeavesFirst ==
    [][ (regRet' # regRet /\ regRet'.dup) =>
            /\ regRet'.engineCode # SQLITE_OK =>
                  regRet'.result =
                      [tag |-> "Register", code |-> regRet'.engineCode]
            /\ regRet'.engineCode = SQLITE_OK => regRet'.result.tag = "Ok"
            /\ \A d \in VfsFind(registry, vfsMem, regRet'.name) :
                  /\ d \in VfsFind(registry', vfsMem', regRet'.name)
                  /\ vfsMem'[d] = vfsMem[d]
                  /\ stateMem'[d] = stateMem[d]
                  /\ counter'[d] = counter[d] ]_vars

C9_Witness ==
    /\ regRet.dup /\ regRet.result.tag = "Register"
    /\ VfsFind(registry, vfsMem, regRet.name) # {}

\* C10: once a handle is opened the engine reaches exactly two callbacks:
\* open through the registered descriptor and close through the handle's
\* method-table pointer.
C10_OpenAndCloseWired ==
    \A f \in Files :
        life[f] = "opened" =>
            \A d \in registry : EngineCallbacks(d, f) = {"xOpen", "xClose"}

\* Thread t's open call returns SQLITE_OK in this step (a null file pointer
\* leaves "open_out_file" for the report, not for idle).
OpenReturnsOk(t) == pc[t] = "open_out_file" /\ pc'[t] = "idle"

\* C11: in every interleaving of open calls on distinct handles, a call that
\* returns OK leaves its own handle's extension holding a reference to the
\* state its descriptor's app-data pointer refers to, and leaves every other
\* handle as it was.
C11_OpenWritesOwnHandleOnly ==
    [][ \A t \in Threads :
          OpenReturnsOk(t) =>
            /\ ret'.code = SQLITE_OK
            /\ fileMem'[frame[t].arg2].ext =
                  [tag |-> "init", ref |-> vfsMem[frame[t].arg1].pAppData]
            /\ \A g \in Files \ {frame[t].arg2} : fileMem'[g] = fileMem[g] ]_vars

\* One open has returned OK on its handle while a call that entered when the
\* first was still running (only then does a thread other than the lowest
\* take a call) is between its two steps on another handle of the same
\* filesystem.
C11_Witness ==
    \E t \in Threads \ {1} :
        /\ pc[t] = "open_out_file"
        /\ ret.fn = "x_open" /\ ret.code = SQLITE_OK
        /\ frame[t].arg1 = ret.arg1
        /\ frame[t].arg2 \notin {NULL, ret.arg2}
        /\ fileMem[ret.arg2].ext = [tag |-> "init", ref |-> ret.state]

\* The threads inside the critical section of state s.
InCritical(s) ==
    { t \in Threads : pc[t] \in {"sle_insert", "sle_insert_error"}
                          /\ frame[t].state = s }

\* The pairs the set_last_error calls on s that have returned were given.
PairsPassed(s) == { sleLog[s][i] : i \in 1 .. Len(sleLog[s]) }

\* Whenever the slot of s can be looked at (its lock is free) it is empty or
\* holds the pair of one call; at most one thread is in the critical section,
\* and it is the lock's holder.
MutuallyExclusive ==
    \A s \in StatePtrs :
        /\ Cardinality(InCritical(s)) <= 1
        /\ \A t \in InCritical(s) : mutex[s] = t
        /\ mutex[s] = NULL =>
              \/ stateMem[s].last_error = <<>>
              \/ stateMem[s].last_error[1] \in PairsPassed(s)

\* C12: concurrent set_last_error calls on one state are mutually exclusive
\* (the slot never shows a code of one call with the error of another), and
\* under fair scheduling every call gets the lock and returns.
C12_ExclusiveAndLive ==
    /\ []MutuallyExclusive
    /\ \A t \in Threads : (pc[t] # "idle") ~> (pc[t] = "idle")

\* One thread is in the middle of its write, the slot holding its code and
\* no error yet, while another thread waits for the same lock.
C12_Witness ==
    \E s \in StatePtrs, t, u \in Threads :
        /\ pc[t] = "sle_insert_error" /\ frame[t].state = s /\ mutex[s] = t
        /\ pc[u] = "sle_lock" /\ frame[u].state = s
        /\ frame[u].code # frame[t].code
        /\ stateMem[s].last_error[1].error = "unwritten"
\* Thread t's call returns from set_last_error in this step.
ReportReturns(t) == pc[t] = "sle_insert" /\ pc'[t] = "idle"

\* C13: the slot is per registered filesystem: an error recorded by a
\* trampoline entered through a descriptor changes the slot of that
\* descriptor's state and no other state.
C13_SlotPerFilesystem ==
    [][ \A t \in Threads :
          (ReportReturns(t) /\ frame[t].fn = "x_open") =>
            LET own == vfsMem[frame[t].arg1].pAppData IN
            /\ stateMem'[own].last_error =
                  << [code |-> frame[t].code, error |-> frame[t].error] >>
            /\ \A s \in StatePtrs \ {own} : stateMem'[s] = stateMem[s] ]_vars

\* Two filesystems are registered; an open through one has recorded its
\* error, and the other's slot is still empty.
C13_Witness ==
    \E d, e \in registry :
        /\ d # e
        /\ ret.fn = "x_open" /\ ret.arg1 = d /\ ret.recorded
        /\ stateMem[vfsMem[d].pAppData].last_error # <<>>
        /\ stateMem[vfsMem[e].pAppData].last_error = <<>>
\* The descriptors whose registration the engine refused.
Refused == { d \in 1 .. nAlloc : d \notin registry }

\* C14: what a register call that failed with Register(code) allocated is
\* never reclaimed: its descriptor with the name string, and its state with
\* the backend and the one reference of the leaked box, stay as they were
\* made.
C14_RefusedStaysAllocated ==
    \A d \in Refused :
        /\ vfsMem[d].alloc /\ vfsMem[d].zName # <<>>
        /\ vfsMem[d] = NewVfs(vfsMem[d].zName, d)
        /\ stateMem[d].alloc /\ stateMem[d].vfs = d
        /\ stateMem[d].strong = 1

\* A registration was refused, and after it another register call and an
\* open call have run.
C14_Witness ==
    \E d \in Refused :
        /\ d < nAlloc
        /\ ret.fn = "x_open" /\ ret.code = SQLITE_OK
        /\ vfsMem[d].alloc /\ stateMem[d].alloc
\* The handles that are opened on state s.
OpenedOn(s) ==
    { f \in Files : life[f] = "opened" /\ fileMem[f].ext.ref = s }

\* C15: the strong count of every allocated state is 1 (the leaked box
\* behind pAppData) plus the number of handles opened on it, also after a
\* second open of a handle that is already opened.
C15_RefCountMatchesOpened ==
    \A s \in StatePtrs :
        stateMem[s].alloc =>
            stateMem[s].strong = 1 + Cardinality(OpenedOn(s))
\* A step of an open call other than the one that returns SQLITE_OK: the
\* call refused at its entry, the entry of a call whose descriptor is valid,
\* and the steps of the report of a null file pointer.
OpenStepNotOk ==
    \/ nCalls' # nCalls /\ ret'.fn = "x_open" /\ pc' = pc
    \/ \E t \in Threads :
          \/ pc[t] = "idle" /\ pc'[t] = "open_out_file"
          \/ pc[t] = "open_out_file" /\ pc'[t] = "sle_lock"
          \/ pc[t] = "sle_lock" /\ pc'[t] = "sle_insert"
          \/ ReportReturns(t)

\* The states with their slots blanked.
SlotsBlanked(mem) == [s \in StatePtrs |-> [mem[s] EXCEPT !.last_error = <<>>]]

\* C16: an open call that returns a non-OK code writes no handle's extension
\* and leaves every reference count as it was; of the adapter's state it
\* changes at most a last-error slot.
C16_FailedOpenFrame ==
    [][ OpenStepNotOk =>
          /\ fileMem' = fileMem /\ life' = life
          /\ SlotsBlanked(stateMem') = SlotsBlanked(stateMem)
          /\ vfsMem' = vfsMem /\ registry' = registry /\ counter' = counter
          /\ (ret' # ret => ret'.code # SQLITE_OK) ]_vars

\* An open call with a null file pointer has returned its code while a handle
\* is opened on the same state, which has its two references.
C16_Witness ==
    /\ ret.fn = "x_open" /\ ret.code = SQLITE_CANTOPEN /\ ret.recorded
    /\ OpenedOn(ret.state) # {}
    /\ stateMem[ret.state].strong = 2
\* The last-error slots of all states.
Slots(mem) == [s \in StatePtrs |-> mem[s].last_error]

\* C17: an open call that returns OK leaves every last-error slot as it was,
\* so a pair recorded by an earlier failed call stays until the next
\* set_last_error call.
C17_OkOpenKeepsSlot ==
    [][ \A t \in Threads :
          (OpenReturnsOk(t) \/ (pc[t] = "idle" /\ pc'[t] = "open_out_file")) =>
              Slots(stateMem') = Slots(stateMem) ]_vars

\* An open has returned OK on a filesystem whose slot still holds the pair an
\* earlier open with a null file pointer recorded.
C17_Witness ==
    /\ ret.fn = "x_open" /\ ret.code = SQLITE_OK /\ ret.wrote
    /\ ret.slot = << [code |-> SQLITE_CANTOPEN, error |-> ErrInvalidFile] >>
    /\ stateMem[ret.state].last_error = ret.slot
====
